---- MODULE Spec2Model ----
(***************************************************************************)
(* Model of src/BiasCheck.py: the BiasCheck moderation pipeline.           *)
(*                                                                         *)
(* A process constructs one BiasCheck instance (loading the statistics     *)
(* file), calls run() on it and exits.  run() is modelled by its three     *)
(* sequential method calls (filter_prompt, llm_output, filter_output).     *)
(* The remote model is an oracle: every call either raises or returns a    *)
(* free text.  Oracle texts are sequences of characters so that Python's   *)
(* substring test ("yes" in text) is computed, not assumed.                *)
(*                                                                         *)
(* A Python Counter is a total function from keys to naturals (a missing   *)
(* key reads as 0).  The keys are the two Python booleans, written "True"  *)
(* and "False" here, and the two JSON strings "true" and "false".          *)
(***************************************************************************)
EXTENDS Integers, Sequences, FiniteSets, TLC

\* Bound on the number of run() calls made against the statistics file.
MaxRuns == 3

----------------------------------------------------------------------------
\* Literals of the program

fallback == "Sorry, I cannot assist with that."
Rejection == "Bias check is not passed"
ModelError == "Error while calling the model."
prompt_0 == "How many people live in the world?"
SomeAnswer == "About eight billion."

\* user_input=None, and a user_input that is not a str
NoneInput == "<None>"
NonStrInput == "<not a str>"
Blank == "   "

UserInputs == {NoneInput, NonStrInput, "", Blank, prompt_0, fallback}
ConsoleLines == {"", prompt_0}

\* the token searched in the prompt oracle's text, and in the output oracle's
yes_token == <<"y", "e", "s">>
Yes_token == <<"Y", "e", "s">>

Responses ==
  { <<"Y", "e", "s">>, <<"N", "o">>, <<"y", "e", "s">>, <<"n", "o">>,
    <<"Y", "e", "s", ",", " ", "y", "e", "s">> }

\* outcome of one remote call: it raised, or it returned a text
RemoteOutcomes ==
  {[err |-> TRUE, text |-> <<>>]} \cup {[err |-> FALSE, text |-> t] : t \in Responses}

GenOutcomes ==
  {[err |-> TRUE, text |-> ""]} \cup
  {[err |-> FALSE, text |-> t] : t \in {SomeAnswer, fallback, Rejection}}

NoCall == [err |-> FALSE, text |-> <<>>]

\* outcome of the file write of _save_stats: written; open() raised (file
\* untouched); open(..., "w") truncated the file and json.dump raised
WriteOutcomes == {"ok", "open_fails", "dump_fails"}

CounterNames == {"fallbacks", "bias"}
Keys == {"True", "False", "true", "false"}

----------------------------------------------------------------------------
\* Pure helpers

\* Python: sub in s
Contains(sub, s) ==
  \E i \in 1..(Len(s) - Len(sub) + 1) : SubSeq(s, i, i + Len(sub) - 1) = sub

\* Python: s.strip(), on the input texts of the model
strip(s) == IF s = Blank THEN "" ELSE s

\* the Counter key that a Python bool is
BoolKey(b) == IF b THEN "True" ELSE "False"

\* Counter({True: 0, False: 0})
ZeroCounter == [k \in Keys |-> 0]

ZeroStats == [c \in CounterNames |-> ZeroCounter]

\* Counter(d) for a JSON object d
CounterOf(d) == [k \in Keys |-> IF k \in DOMAIN d THEN d[k] ELSE 0]

\* counter[key] += 1
Incr(counter, key) == [counter EXCEPT ![key] = @ + 1]

\* a serialiser that reads the string keys of the Counter
StatsToJson_strkeys(st) ==
  [c \in CounterNames |-> [true |-> st[c]["true"], false |-> st[c]["false"]]]

\* the dict that _save_stats serialises
StatsToJson(st) ==
  [c \in CounterNames |-> [true |-> st[c]["True"], false |-> st[c]["False"]]]

NoFile == [kind |-> "absent", data |-> StatsToJson(ZeroStats)]
Garbage == [kind |-> "malformed", data |-> StatsToJson(ZeroStats)]

\* _load_stats: json.load raises on a file that is not JSON
_load_stats(f) ==
  CASE f.kind = "absent" -> [raised |-> FALSE, stats |-> ZeroStats]
    [] f.kind = "malformed" -> [raised |-> TRUE, stats |-> ZeroStats]
    [] OTHER ->
        [raised |-> FALSE,
         stats |-> [c \in CounterNames |->
                      IF c \in DOMAIN f.data THEN CounterOf(f.data[c])
                      ELSE ZeroCounter]]

\* a _save_stats without its try/except
_save_stats_raising(st, f, w) ==
  [raised |-> w # "ok",
   file |-> CASE w = "ok" -> [kind |-> "json", data |-> StatsToJson(st)]
              [] w = "open_fails" -> f
              [] OTHER -> Garbage]

\* _save_stats: every exception is logged and swallowed
_save_stats(st, f, w) ==
  [raised |-> FALSE,
   file |-> CASE w = "ok" -> [kind |-> "json", data |-> StatsToJson(st)]
              [] w = "open_fails" -> f
              [] OTHER -> Garbage]

\* a _check_prompt that lets the prompt pass when the remote call raises
_check_prompt_failopen(prompt, o) ==
  IF prompt = "" \/ prompt = fallback THEN FALSE
  ELSE IF o.err THEN TRUE
  ELSE ~Contains(yes_token, o.text)

\* _check_prompt: TRUE iff the prompt passed
_check_prompt(prompt, o) ==
  IF prompt = "" \/ prompt = fallback THEN FALSE
  ELSE IF o.err THEN FALSE
  ELSE ~Contains(yes_token, o.text)

\* whether _check_prompt calls the remote model
PromptOracleCalled(prompt) == ~(prompt = "" \/ prompt = fallback)

\* a filter_prompt that returns the prompt whatever the verdict
filter_prompt_return_always(p, prompt) == prompt

\* return value of filter_prompt
filter_prompt_return(p, prompt) == IF p THEN prompt ELSE fallback

\* llm_output
llm_output(prompt, g) ==
  IF prompt = fallback THEN fallback
  ELSE IF g.err THEN ModelError
  ELSE g.text

\* _check_output_bias_via_llm
_check_output_bias_via_llm(o) == IF o.err THEN TRUE ELSE Contains(Yes_token, o.text)

\* an early return that forgets the fallback message
SkipOutputCheck_guardrails_only(g, out) == ~g

\* the early return of filter_output
SkipOutputCheck(g, out) == ~g \/ out = fallback

\* a filter_output with the verdict inverted
filter_output_return_inverted(biased, out) == IF biased THEN out ELSE Rejection

\* return value of filter_output after the check
filter_output_return(biased, out) == IF ~biased THEN out ELSE Rejection

----------------------------------------------------------------------------
VARIABLES
  file,            \* the statistics file
  pc,              \* position of the process
  user_input,      \* self.user_input
  guardrails,      \* self.config["guardrails"]
  stats,           \* self.stats
  stats0,          \* self.stats as loaded at construction
  passed,          \* value returned by _check_prompt
  is_biased,       \* value returned by _check_output_bias_via_llm
  filtered_prompt, \* run(): filtered_prompt
  output,          \* run(): output
  result,          \* value returned by run()
  promptOutcome,   \* what the prompt oracle answered
  outputOutcome,   \* what the output oracle answered
  promptCalls,     \* remote calls of _check_prompt in this run
  genCalls,        \* remote calls of llm_output in this run
  outCalls,        \* remote calls of _check_output_bias_via_llm in this run
  saves,           \* calls of _save_stats in this run
  lastWrite,       \* outcome of the last _save_stats of this instance
  ctorError,       \* exception raised by __init__
  runs,            \* run() calls made since the file did not exist
  writeFailed,     \* some file write has failed since the start
  saved            \* self.stats of the instance that last wrote the file

vars == <<file, pc, user_input, guardrails, stats, stats0, passed, is_biased,
          filtered_prompt, output, result, promptOutcome, outputOutcome,
          promptCalls, genCalls, outCalls, saves, lastWrite, ctorError, runs,
          writeFailed, saved>>

instVars == <<user_input, guardrails, stats, stats0, passed, is_biased,
              filtered_prompt, output, result, promptOutcome, outputOutcome,
              promptCalls, genCalls, outCalls, saves, lastWrite, ctorError>>

\* the instance fields when there is no instance
NoInstance ==
  /\ user_input' = ""
  /\ guardrails' = TRUE
  /\ stats' = ZeroStats
  /\ stats0' = ZeroStats
  /\ passed' = FALSE
  /\ is_biased' = FALSE
  /\ filtered_prompt' = ""
  /\ output' = ""
  /\ result' = ""
  /\ promptOutcome' = NoCall
  /\ outputOutcome' = NoCall
  /\ promptCalls' = 0
  /\ genCalls' = 0
  /\ outCalls' = 0
  /\ saves' = 0
  /\ lastWrite' = "none"

Init ==
  /\ file = NoFile
  /\ pc = "NO_INSTANCE"
  /\ user_input = ""
  /\ guardrails = TRUE
  /\ stats = ZeroStats
  /\ stats0 = ZeroStats
  /\ passed = FALSE
  /\ is_biased = FALSE
  /\ filtered_prompt = ""
  /\ output = ""
  /\ result = ""
  /\ promptOutcome = NoCall
  /\ outputOutcome = NoCall
  /\ promptCalls = 0
  /\ genCalls = 0
  /\ outCalls = 0
  /\ saves = 0
  /\ lastWrite = "none"
  /\ ctorError = "none"
  /\ runs = 0
  /\ writeFailed = FALSE
  /\ saved = [valid |-> FALSE, stats |-> ZeroStats]

\* BiasCheck.__init__
Construct ==
  /\ pc = "NO_INSTANCE"
  /\ runs < MaxRuns
  /\ \E ui \in UserInputs, line \in ConsoleLines, g \in BOOLEAN :
       LET resolved == IF ui \in {NoneInput, ""} THEN line ELSE ui
           loaded == _load_stats(file)
       IN  IF ui = NonStrInput \/ strip(resolved) = ""
           THEN /\ NoInstance
                /\ pc' = "CTOR_FAILED"
                /\ ctorError' = "ValueError"
           ELSE IF loaded.raised
           THEN /\ NoInstance
                /\ pc' = "CTOR_FAILED"
                /\ ctorError' = "JSONDecodeError"
           ELSE /\ pc' = "START"
                /\ user_input' = resolved
                /\ guardrails' = g
                /\ stats' = loaded.stats
                /\ stats0' = loaded.stats
                /\ ctorError' = "none"
                /\ UNCHANGED <<passed, is_biased, filtered_prompt, output,
                               result, promptOutcome, outputOutcome,
                               promptCalls, genCalls, outCalls, saves,
                               lastWrite>>
  /\ UNCHANGED <<file, runs, writeFailed, saved>>

\* run(), step 1: filter_prompt
FilterPrompt ==
  /\ pc = "START"
  /\ \E o \in RemoteOutcomes, w \in WriteOutcomes :
       LET p == _check_prompt(user_input, o)
           called == PromptOracleCalled(user_input)
           st == [stats EXCEPT !["fallbacks"] = Incr(@, BoolKey(~p))]
           sv == _save_stats(st, file, w)
       IN  /\ passed' = p
           /\ promptOutcome' = IF called THEN o ELSE NoCall
           /\ promptCalls' = promptCalls + (IF called THEN 1 ELSE 0)
           /\ stats' = st
           /\ file' = sv.file
           /\ saves' = saves + 1
           /\ lastWrite' = w
           /\ writeFailed' = (writeFailed \/ w # "ok")
           /\ saved' = IF w = "ok" THEN [valid |-> TRUE, stats |-> st] ELSE saved
           /\ filtered_prompt' = filter_prompt_return(p, user_input)
           /\ pc' = IF sv.raised THEN "RAISED" ELSE "PROMPT_FILTERED"
  /\ runs' = runs + 1
  /\ UNCHANGED <<user_input, guardrails, stats0, is_biased, output, result,
                 outputOutcome, genCalls, outCalls, ctorError>>

\* run(), step 2: the prompt was rejected
RunReject ==
  /\ pc = "PROMPT_FILTERED"
  /\ filtered_prompt = fallback
  /\ result' = fallback
  /\ pc' = "DONE"
  /\ UNCHANGED <<file, user_input, guardrails, stats, stats0, passed,
                 is_biased, filtered_prompt, output, promptOutcome,
                 outputOutcome, promptCalls, genCalls, outCalls, saves,
                 lastWrite, ctorError, runs, writeFailed, saved>>

\* run(), step 3: llm_output
LlmOutput ==
  /\ pc = "PROMPT_FILTERED"
  /\ filtered_prompt # fallback
  /\ \E g \in GenOutcomes : output' = llm_output(filtered_prompt, g)
  /\ genCalls' = genCalls + (IF filtered_prompt = fallback THEN 0 ELSE 1)
  /\ pc' = "ANSWERED"
  /\ UNCHANGED <<file, user_input, guardrails, stats, stats0, passed,
                 is_biased, filtered_prompt, result, promptOutcome,
                 outputOutcome, promptCalls, outCalls, saves, lastWrite,
                 ctorError, runs, writeFailed, saved>>

\* run(), step 4: filter_output, and the return of run()
FilterOutput ==
  /\ pc = "ANSWERED"
  /\ IF SkipOutputCheck(guardrails, output)
     THEN /\ result' = output
          /\ pc' = "DONE"
          /\ UNCHANGED <<file, stats, is_biased, outputOutcome, outCalls,
                         saves, lastWrite, writeFailed, saved>>
     ELSE \E o \in RemoteOutcomes, w \in WriteOutcomes :
            LET b == _check_output_bias_via_llm(o)
                st == [stats EXCEPT !["bias"] = Incr(@, BoolKey(b))]
                sv == _save_stats(st, file, w)
            IN  /\ is_biased' = b
                /\ outputOutcome' = o
                /\ outCalls' = outCalls + 1
                /\ stats' = st
                /\ file' = sv.file
                /\ saves' = saves + 1
                /\ lastWrite' = w
                /\ writeFailed' = (writeFailed \/ w # "ok")
                /\ saved' = IF w = "ok" THEN [valid |-> TRUE, stats |-> st]
                            ELSE saved
                /\ result' = filter_output_return(b, output)
                /\ pc' = IF sv.raised THEN "RAISED" ELSE "DONE"
  /\ UNCHANGED <<user_input, guardrails, stats0, passed, filtered_prompt,
                 output, promptOutcome, promptCalls, genCalls, ctorError,
                 runs>>

\* the process ends; the instance is gone, the file stays
Exit ==
  /\ pc \in {"DONE", "CTOR_FAILED", "RAISED"}
  /\ pc' = "NO_INSTANCE"
  /\ NoInstance
  /\ ctorError' = "none"
  /\ UNCHANGED <<file, runs, writeFailed, saved>>

Next ==
  \/ Construct
  \/ FilterPrompt
  \/ RunReject
  \/ LlmOutput
  \/ FilterOutput
  \/ Exit

Spec == Init /\ [][Next]_vars

TypeOK ==
  /\ file.kind \in {"absent", "json", "malformed"}
  /\ pc \in {"NO_INSTANCE", "CTOR_FAILED", "START", "PROMPT_FILTERED",
             "ANSWERED", "DONE", "RAISED"}
  /\ guardrails \in BOOLEAN
  /\ passed \in BOOLEAN
  /\ is_biased \in BOOLEAN
  /\ \A c \in CounterNames : \A k \in Keys : stats[c][k] \in Nat
  /\ runs \in 0..MaxRuns
  /\ lastWrite \in WriteOutcomes \cup {"none"}

----------------------------------------------------------------------------
\* Shorthands of the properties

\* run() has got past filter_prompt
AfterPromptFilter == pc \in {"PROMPT_FILTERED", "ANSWERED", "DONE"}

\* the file holds exactly the counts the instance reads with its bool keys
FileEqualsMemory ==
  /\ file.kind = "json"
  /\ \A c \in CounterNames :
       /\ file.data[c]["true"] = stats[c]["True"]
       /\ file.data[c]["false"] = stats[c]["False"]

\* counter c of the instance differs from its loaded value by one increment
IncrementedOnce(c) ==
  /\ stats[c]["True"] + stats[c]["False"] = stats0[c]["True"] + stats0[c]["False"] + 1
  /\ stats[c]["True"] >= stats0[c]["True"]
  /\ stats[c]["False"] >= stats0[c]["False"]
  /\ stats[c]["true"] = stats0[c]["true"]
  /\ stats[c]["false"] = stats0[c]["false"]

----------------------------------------------------------------------------
\* C1: whenever _check_prompt judged the prompt biased (did not pass), run()
\* never reaches answer generation or the output oracle, leaves both entries
\* of the bias counter as loaded, and returns the fallback message.
C1_BiasedPromptShortCircuits ==
  (AfterPromptFilter /\ ~passed) =>
     /\ pc # "ANSWERED"
     /\ genCalls = 0
     /\ outCalls = 0
     /\ stats["bias"] = stats0["bias"]
     /\ (pc = "DONE" => result = fallback)

C1_Witness ==
  /\ pc = "DONE"
  /\ ~passed
  /\ promptCalls = 1
  /\ ~promptOutcome.err
  /\ result = fallback

\* C2 (as claimed): starting from no file, after N runs without a failed
\* write the file's fallback counts add up to N.
C2_CountsAddUpToRuns ==
  (pc = "DONE" /\ ~writeFailed) =>
     /\ file.kind = "json"
     /\ file.data["fallbacks"]["true"] + file.data["fallbacks"]["false"] = runs

\* C3 (as claimed): an instance constructed on a file that another instance
\* saved reads, for both counters, the true and false counts of the saver.
C3_RoundTrip ==
  (pc = "START" /\ saved.valid /\ file.kind = "json") =>
     \A c \in CounterNames :
        /\ stats[c]["True"] = saved.stats[c]["True"]
        /\ stats[c]["False"] = saved.stats[c]["False"]

\* C4 (amended): both oracles treat a failed remote call as "biased": a
\* failed prompt check records a triggered fallback, skips answer generation
\* and makes run() return the fallback message; a failed output check
\* records a detected bias and makes run() return the rejection string.
C4_BothOraclesFailClosed ==
  /\ (AfterPromptFilter /\ promptCalls = 1 /\ promptOutcome.err) =>
        /\ ~passed
        /\ stats["fallbacks"]["True"] = stats0["fallbacks"]["True"] + 1
        /\ stats["fallbacks"]["False"] = stats0["fallbacks"]["False"]
        /\ genCalls = 0
        /\ (pc = "DONE" => result = fallback)
  /\ (pc = "DONE" /\ outCalls = 1 /\ outputOutcome.err) =>
        /\ is_biased
        /\ stats["bias"]["True"] = stats0["bias"]["True"] + 1
        /\ stats["bias"]["False"] = stats0["bias"]["False"]
        /\ result = Rejection

C4_Witness ==
  /\ pc = "DONE"
  /\ promptCalls = 1
  /\ promptOutcome.err
  /\ stats["fallbacks"]["True"] = 1
  /\ result = fallback

\* C4 (as claimed): a failed prompt check lets the prompt pass (fallback
\* counter records not-triggered, answer generation follows); a failed output
\* check rejects the answer.
C4_AsymmetricDefaults ==
  /\ (AfterPromptFilter /\ promptCalls = 1 /\ promptOutcome.err) =>
        /\ passed
        /\ stats["fallbacks"]["False"] = stats0["fallbacks"]["False"] + 1
        /\ stats["fallbacks"]["True"] = stats0["fallbacks"]["True"]
        /\ (pc = "DONE" => genCalls = 1)
  /\ (pc = "DONE" /\ outCalls = 1 /\ outputOutcome.err) =>
        /\ is_biased
        /\ stats["bias"]["True"] = stats0["bias"]["True"] + 1
        /\ result = Rejection

\* C5 (as claimed): when the prompt oracle's text contains "Yes", run()
\* returns the fallback message and makes no answer-generation call.
C5_YesRejectsPrompt ==
  (pc = "DONE" /\ promptCalls = 1 /\ ~promptOutcome.err
     /\ Contains(<<"Y", "e", "s">>, promptOutcome.text)) =>
     /\ result = fallback
     /\ genCalls = 0

\* C6: run() on a constructed instance never raises, whatever the oracles
\* answer and whether or not the file writes fail, and what it returns is
\* the fallback message, the rejection string or the text of llm_output.
C6_RunReturnsOneOfThree ==
  /\ pc # "RAISED"
  /\ (pc = "DONE" =>
        \/ result = fallback
        \/ result = Rejection
        \/ (genCalls = 1 /\ result = output))

C6_Witness ==
  /\ pc = "DONE"
  /\ lastWrite = "dump_fails"
  /\ output = ModelError
  /\ outCalls = 1
  /\ result = ModelError

\* C7: when guardrails are off or the answer equals the fallback message,
\* filter_output returns the answer as it is, without an output-oracle call,
\* without a change of the bias counter and without a statistics write (the
\* only write of the run is filter_prompt's).
C7_OutputCheckSkipped ==
  (pc = "DONE" /\ genCalls = 1 /\ (~guardrails \/ output = fallback)) =>
     /\ result = output
     /\ outCalls = 0
     /\ stats["bias"] = stats0["bias"]
     /\ saves = 1

C7_Witness ==
  /\ pc = "DONE"
  /\ genCalls = 1
  /\ guardrails
  /\ output = fallback
  /\ result = fallback
  /\ saves = 1

\* C8 (as claimed): construction with a valid input on an absent or a
\* malformed statistics file succeeds with every count zero.
C8_LoadDefaultsToZero ==
  (pc \in {"START", "CTOR_FAILED"} /\ ctorError # "ValueError"
     /\ file.kind \in {"absent", "malformed"}) =>
     /\ pc = "START"
     /\ stats = ZeroStats

\* C9: when the prompt passed, guardrails are on and the answer is not the
\* fallback message, the output oracle is called once, the bias entry of its
\* verdict (and only that one) grows by one, and run() returns the rejection
\* string on a biased verdict and the answer otherwise.
C9_OutputCheckApplied ==
  (pc = "DONE" /\ passed /\ guardrails /\ genCalls = 1 /\ output # fallback) =>
     /\ outCalls = 1
     /\ (~outputOutcome.err =>
           (is_biased <=> Contains(<<"Y", "e", "s">>, outputOutcome.text)))
     /\ (is_biased =>
           /\ stats["bias"]["True"] = stats0["bias"]["True"] + 1
           /\ stats["bias"]["False"] = stats0["bias"]["False"]
           /\ result = Rejection)
     /\ (~is_biased =>
           /\ stats["bias"]["False"] = stats0["bias"]["False"] + 1
           /\ stats["bias"]["True"] = stats0["bias"]["True"]
           /\ result = output)

C9_Witness ==
  /\ pc = "DONE"
  /\ passed
  /\ guardrails
  /\ output = SomeAnswer
  /\ outCalls = 1
  /\ is_biased
  /\ result = Rejection

\* C10: each filtering decision increments its counter once and saves at
\* once: after filter_prompt (before answer generation or the return of the
\* fallback) the fallback counter is one above its loaded value, after an
\* output check the bias counter is, and whenever the last write succeeded
\* the file holds the instance's in-memory counts.
C10_FlushedAfterEachDecision ==
  /\ AfterPromptFilter => (IncrementedOnce("fallbacks") /\ saves >= 1)
  /\ (pc = "PROMPT_FILTERED") => saves = 1
  /\ (pc = "DONE" /\ outCalls = 1) => (IncrementedOnce("bias") /\ saves = 2)
  /\ (AfterPromptFilter /\ lastWrite = "ok") => FileEqualsMemory

C10_Witness ==
  /\ pc = "DONE"
  /\ outCalls = 1
  /\ lastWrite = "ok"
  /\ stats0["bias"]["false"] = 1
  /\ stats["bias"]["False"] = 1
  /\ file.data["bias"]["false"] = 1

====
